---- MODULE Spec2Model ----
(***************************************************************************)
(* A model of the staged repository scanner (src/src/staged-scanner.js),   *)
(* its manual entry point (src/manual-scan.js) and its category            *)
(* configuration (src/src/config/categories.js).                           *)
(*                                                                         *)
(* Time stamps are ISO-8601 strings in the program; the model uses the     *)
(* positive integers, in the same order.  A missing time stamp (an absent  *)
(* key, or null) is the number 0, which is what the program's `|| 0`       *)
(* makes of it.                                                            *)
(***************************************************************************)
EXTENDS Integers, Sequences, FiniteSets, TLC

VARIABLES
    repositoriesFile,   \* data/repositories.json: full_name -> record
    statusFile,         \* data/scan-status.json: the scan status
    clock,              \* the last wall-clock reading any invocation made
    last,               \* observer: what the last invocation did
    hist,               \* observer: what the invocations so far did
    scan,               \* scanCategory's local state, one category scan
    scanLog,            \* observer: the searches and enrichments of that scan
    scenario,           \* the scripted inputs of the function under study
                        \* (for a scripted scan, the items the search
                        \* answers each term with) and, once it has
                        \* returned, its result; <<>> when nothing is scripted
    running             \* the invocation of run in progress, when run is
                        \* followed from await to await

vars ==
    <<repositoriesFile, statusFile, clock, last, hist, scan, scanLog, scenario,
      running>>

coordVars == <<repositoriesFile, statusFile, clock, last, hist, running>>
scanVars == <<scan, scanLog, scenario>>

(***************************************************************************)
(* Bounds of the model.                                                    *)
(***************************************************************************)
\* The wall clock stops the model here: no invocation starts after it.
MaxTime == 4
\* The same, for the behaviours with failing reads and writes.
MaxTimeIO == 2
\* The latest time stamp of a status document the scanner is started on.
AnyTime == 2
\* The search terms of a category (the configuration has five to seven).
NumTerms == 2
\* The longest list the search capability returns for one term.
MaxItems == 2

(***************************************************************************)
(* Configuration: src/src/config/categories.js.  The model keeps the first *)
(* three of the eight categories, in configuration order.                  *)
(***************************************************************************)
allCategories == <<"web-automation", "mobile-automation", "api-testing">>

CategoryIds == {allCategories[i] : i \in 1..Len(allCategories)}

\* The repositories the search capability can return to a coordinator step.
RepoIds == {"r1", "r2"}

NoRecord == [full_name |-> "none", category |-> "none", scannedAt |-> 0]

\* fs.readJSON(repositoriesFile) failing: .catch(() => ({}))
emptyRepositories == [r \in RepoIds |-> NoRecord]

\* fs.readJSON(statusFile) failing: the default status.  categoryTimestamps
\* is missing from it; getNextCategory and run put {} in its place.
defaultScanStatus ==
    [lastScannedCategory |-> "null",
     completedCategories |-> <<>>,
     currentCycle |-> 1,
     lastFullScan |-> 0,
     categoryTimestamps |-> [c \in CategoryIds |-> 0],
     lastScanTime |-> 0]

(***************************************************************************)
(* getNextCategory                                                         *)
(***************************************************************************)
\* JavaScript's a < b on two values that are each an ISO string or the
\* number 0.  Two strings compare as strings, which is their order in time.
\* A string and a number compare as numbers: the string becomes NaN and the
\* comparison is false.  0 < 0 is false.
JsLess(a, b) == IF a = 0 \/ b = 0 THEN FALSE ELSE a < b

RECURSIVE reduceOldest(_, _, _)
reduceOldest(categoryTimestamps, oldest, i) ==
    IF i > Len(allCategories) THEN oldest
    ELSE LET cat == allCategories[i]
             catTime == categoryTimestamps[cat]
             oldestTime == categoryTimestamps[oldest]
         IN reduceOldest(categoryTimestamps,
                         IF JsLess(catTime, oldestTime) THEN cat ELSE oldest,
                         i + 1)

oldestCategory(scanStatus) ==
    reduceOldest(scanStatus.categoryTimestamps, allCategories[1], 1)

allCategoriesHaveTimestamps(scanStatus) ==
    \A cat \in CategoryIds :
        /\ scanStatus.categoryTimestamps[cat] # 0
        /\ scanStatus.categoryTimestamps[cat] > scanStatus.lastFullScan

getNextCategory(scanStatus) ==
    [category |-> oldestCategory(scanStatus),
     isNewCycle |-> allCategoriesHaveTimestamps(scanStatus),
     scanStatus |-> scanStatus]

\* manual-scan.js replaces getNextCategory: the category asked for, never a
\* new cycle, and the category taken out of completedCategories.
\* (a manual scan whose scanner keeps its own getNextCategory)
manualNotOverridden(scanStatus, categoryKey) == getNextCategory(scanStatus)

manualGetNextCategory(scanStatus, categoryKey) ==
    [category |-> categoryKey,
     isNewCycle |-> FALSE,
     scanStatus |->
        [scanStatus EXCEPT !.completedCategories =
            SelectSeq(@, LAMBDA cat : cat # categoryKey)]]

(***************************************************************************)
(* inspectData (manual-scan.js): the category it reports as the next to    *)
(* scan, when not all are completed: remaining[0], the first configured    *)
(* category that is not in completedCategories.                            *)
(***************************************************************************)
remaining(scanStatus) ==
    SelectSeq(allCategories,
              LAMBDA cat : cat \notin {scanStatus.completedCategories[i] :
                                    i \in DOMAIN scanStatus.completedCategories})

inspectsPending(scanStatus) ==
    Len(scanStatus.completedCategories) < Len(allCategories)

inspectedNextCategory(scanStatus) == remaining(scanStatus)[1]

(***************************************************************************)
(* Limits: the constructor.  Both are read from the environment; the model *)
(* runs with MAX_REPOS_PER_SEARCH=1 and MAX_REPOS_PER_CATEGORY=2.  The      *)
(* first is the perPage handed to the search capability, which returns     *)
(* what it returns: up to MaxItems repositories.                           *)
(***************************************************************************)
maxReposPerSearch == 1
maxReposPerCategory == 2

(***************************************************************************)
(* scanCategory, one step at a time.  Its local state is a record:         *)
(*   pc            Idle, Searching (top of the loop over the search terms, *)
(*                 before the timeout check), Enriching (top of the loop   *)
(*                 over the search results), Done (returned)               *)
(*   term          the index of the search term of this iteration          *)
(*   repositories  the accumulated list, by full_name                      *)
(*   repos         the search results not yet iterated over                *)
(*   expired       Date.now() - startTime is over timeoutMinutes           *)
(*   exit          why the loop over the search terms ended                *)
(* The clock advances during the awaits (the search, an enrichment): the   *)
(* input `late` of a step says that the timeout has passed by its end.     *)
(***************************************************************************)
\* The repositories the search capability can return to one category scan.
ScanRepoIds == {"r1", "r2", "r3"}

RECURSIVE SeqsUpTo(_, _)
SeqsUpTo(S, n) ==
    IF n = 0 THEN {<<>>}
    ELSE LET shorter == SeqsUpTo(S, n - 1)
         IN shorter \cup {Append(q, x) : q \in shorter, x \in S}

\* searchResults.items || []
SearchItems(R) == SeqsUpTo(R, MaxItems)

Range(q) == {q[i] : i \in 1..Len(q)}

occurrences(q, x) == Cardinality({i \in DOMAIN q : q[i] = x})

scanIdle ==
    [pc |-> "Idle", term |-> 0, repositories |-> <<>>, repos |-> <<>>,
     expired |-> FALSE, exit |-> "none",
     maxReposPerCategory |-> maxReposPerCategory]

\* const repositories = []; const startTime = Date.now(); the for loop starts
scanBegin(s) ==
    [s EXCEPT !.pc = "Searching", !.term = 1]

scanReturn(s, why) ==
    [s EXCEPT !.pc = "Done", !.repos = <<>>, !.exit = why]

\* the next iteration of for (const searchTerm of category.searchTerms)
nextTerm(s) ==
    IF s.term + 1 > NumTerms THEN scanReturn(s, "exhausted")
    ELSE [s EXCEPT !.pc = "Searching", !.term = @ + 1, !.repos = <<>>]

\* elapsed > this.timeoutMinutes, at the top of a term's iteration
\* (a loop over the terms that never looks at the time)
timeoutNeverReached(s) == FALSE

timeoutReached(s) == s.expired

\* if (elapsed > this.timeoutMinutes) break;
timeoutBreak(s) == scanReturn(s, "timeout")

\* the options of this.github.searchRepositories(query, {perPage: ...}), as
\* far as they bound the results
\* (a search that leaves perPage to the default of searchRepositories)
searchOptionsDefault == [perPage |-> 100]

searchOptions == [perPage |-> maxReposPerSearch]

\* searchRepositories throws: the catch logs, the loop goes on
\* (a scan with no catch around the search: the error leaves scanCategory)
searchAborts(s, late) == scanReturn([s EXCEPT !.expired = @ \/ late], "threw")

searchThrows(s, late) ==
    nextTerm([s EXCEPT !.expired = @ \/ late])

\* searchRepositories returns: const repos = searchResults.items || []
searchReturns(s, items, late) ==
    [s EXCEPT !.pc = "Enriching", !.repos = items, !.expired = @ \/ late]

\* if (repositories.length >= this.maxReposPerCategory) break; after the
\* loop over the results
afterResults(s) ==
    IF Len(s.repositories) >= s.maxReposPerCategory THEN scanReturn(s, "cap")
    ELSE nextTerm(s)

\* the check for duplicates: repositories.find(r => r.full_name === ...)
\* (a scan without the check)
neverDuplicate(s, repo) == FALSE

isDuplicate(s, repo) == repo \in Range(s.repositories)

\* one iteration of for (const repo of repos): the category limit, the
\* duplicate check, enrichRepository (enriched: it returned a record)
\* (a scan that forgets the limit inside the loop over the results)
capNeverReached(s) == FALSE

\* (a limit tested with > in place of >=)
capExceeded(s) == Len(s.repositories) > s.maxReposPerCategory

capReached(s) == Len(s.repositories) >= s.maxReposPerCategory

\* What breaks the loop over the results before a candidate is looked at:
\* the category limit, and nothing else
\* (a loop over the results that also breaks when the timeout has passed)
breaksOnTimeout(s) == capReached(s) \/ s.expired

breaksResults(s) == capReached(s)

\* repositories.push(enrichedRepo)
\* (a scan that puts the newest record first)
unshiftRecord(repositories, repo) == <<repo>> \o repositories

pushRecord(repositories, repo) == Append(repositories, repo)

resultStep(s, enriched, late) ==
    IF s.repos = <<>> THEN afterResults(s)
    ELSE IF breaksResults(s) THEN afterResults(s)
    ELSE LET repo == Head(s.repos)
         IN IF isDuplicate(s, repo) THEN [s EXCEPT !.repos = Tail(@)]
            ELSE [s EXCEPT !.repos = Tail(@),
                           !.repositories =
                                IF enriched THEN pushRecord(@, repo) ELSE @,
                           !.expired = @ \/ late]

\* Whether resultStep calls enrichRepository
enriches(s) ==
    /\ s.pc = "Enriching"
    /\ s.repos # <<>>
    /\ ~breaksResults(s)
    /\ ~isDuplicate(s, Head(s.repos))

\* Every state one step of scanCategory can lead to, over all behaviours of
\* the search capability (R: what it can return) and of the enrichment.
scanSuccessors(s, R) ==
    CASE s.pc = "Idle" -> {scanBegin(s)}
      [] s.pc = "Searching" ->
            IF timeoutReached(s) THEN {timeoutBreak(s)}
            ELSE {searchThrows(s, late) : late \in BOOLEAN}
                 \cup {searchReturns(s, items, late) :
                            items \in SearchItems(R), late \in BOOLEAN}
      [] s.pc = "Enriching" ->
            {resultStep(s, enriched, late) :
                enriched \in BOOLEAN, late \in BOOLEAN}
      [] OTHER -> {}

RECURSIVE scanReachable(_, _)
scanReachable(states, R) ==
    LET more == states \cup UNION {scanSuccessors(s, R) : s \in states}
    IN IF more = states THEN states ELSE scanReachable(more, R)

\* Every list scanCategory can return when the search capability returns
\* repositories of R.
scanCategoryReturns(R) ==
    {s.repositories : s \in {x \in scanReachable({scanIdle}, R) : x.pc = "Done"}}

\* The same for a coordinator step, as the sets of full_names with the
\* length of each list.
categoryRepos ==
    {[ids |-> Range(q), length |-> Len(q)] : q \in scanCategoryReturns(RepoIds)}

(***************************************************************************)
(* run: the pieces of one invocation.                                      *)
(***************************************************************************)
\* enrichRepository's record, as far as the coordinator reads it
enrichedRepo(repo, categoryKey, now) ==
    [full_name |-> repo, category |-> categoryKey, scannedAt |-> now]

\* loadExistingData: a failing read gives the default
\* (a load that hands on what the file held before the failing read)
loadRepositoriesStale(readFails) == repositoriesFile

loadRepositories(readFails) ==
    IF readFails THEN emptyRepositories ELSE repositoriesFile

loadScanStatus(readFails) ==
    IF readFails THEN defaultScanStatus ELSE statusFile

\* if (isNewCycle) scanStatus.currentCycle = (scanStatus.currentCycle || 0) + 1
\* (a new cycle that clears completedCategories, which the NOTE in run says
\* it deliberately does not)
startCycleClearing(scanStatus, isNewCycle) ==
    IF isNewCycle
    THEN [scanStatus EXCEPT !.currentCycle = @ + 1, !.completedCategories = <<>>]
    ELSE scanStatus

startCycle(scanStatus, isNewCycle) ==
    IF isNewCycle THEN [scanStatus EXCEPT !.currentCycle = @ + 1]
    ELSE scanStatus

\* Remove old data for this category
\* (a merge that forgets to)
keepCategory(existingRepos, nextCategory) == existingRepos

removeCategory(existingRepos, nextCategory) ==
    [r \in RepoIds |->
        IF existingRepos[r] # NoRecord /\ existingRepos[r].category = nextCategory
        THEN NoRecord ELSE existingRepos[r]]

\* Add new data for this category: updatedRepos[repo.full_name] = repo
addCategoryRepos(updatedRepos, nextCategory, ids, now) ==
    [r \in RepoIds |->
        IF r \in ids THEN enrichedRepo(r, nextCategory, now) ELSE updatedRepos[r]]

\* (a merge that keeps the category's old records when the scan found none)
mergeUnlessEmpty(existingRepos, nextCategory, ids, now) ==
    IF ids = {} THEN existingRepos
    ELSE addCategoryRepos(removeCategory(existingRepos, nextCategory),
                          nextCategory, ids, now)

mergeRepositories(existingRepos, nextCategory, ids, now) ==
    addCategoryRepos(removeCategory(existingRepos, nextCategory),
                     nextCategory, ids, now)

\* Update scan status.  now: the clock at the category's time stamp;
\* later: the clock at lastFullScan's, not before now.
\* (a status update that pushes without the includes test)
markCompletedAgain(completedCategories, nextCategory) ==
    Append(completedCategories, nextCategory)

markCompleted(completedCategories, nextCategory) ==
    IF nextCategory \in Range(completedCategories) THEN completedCategories
    ELSE Append(completedCategories, nextCategory)

\* (a cycle taken for complete one category early)
cycleCompleteEarly(scanStatus) ==
    Len(scanStatus.completedCategories) >= Len(allCategories) - 1

cycleComplete(scanStatus) ==
    Len(scanStatus.completedCategories) = Len(allCategories)

\* (a status update that leaves categoryTimestamps alone)
updateWithoutTimestamp(scanStatus, nextCategory, now, later) ==
    LET marked ==
            [scanStatus EXCEPT
                !.completedCategories = markCompleted(@, nextCategory),
                !.lastScannedCategory = nextCategory,
                !.lastScanTime = now]
    IN IF cycleComplete(marked) THEN [marked EXCEPT !.lastFullScan = later]
       ELSE marked

updateScanStatus(scanStatus, nextCategory, now, later) ==
    LET marked ==
            [scanStatus EXCEPT
                !.completedCategories = markCompleted(@, nextCategory),
                !.categoryTimestamps[nextCategory] = now,
                !.lastScannedCategory = nextCategory,
                !.lastScanTime = now]
    IN IF cycleComplete(marked) THEN [marked EXCEPT !.lastFullScan = later]
       ELSE marked

(***************************************************************************)
(* What the observers record.                                              *)
(***************************************************************************)
noInvocation ==
    [kind |-> "none", asked |-> "none", category |-> "none",
     isNewCycle |-> FALSE,
     ids |-> {}, length |-> 0, now |-> 0, outcome |-> "none",
     repoReadFails |-> FALSE, statusReadFails |-> FALSE, written |-> 0,
     allScannedSince |-> FALSE, entry |-> defaultScanStatus, stale |-> {}]

noHistory ==
    [autoRuns |-> 0, manualRuns |-> 0,
     \* the automatic invocations since the category was last scanned
     age |-> [c \in CategoryIds |-> 0],
     \* the result of the most recent successful scan of the category
     scanned |-> [c \in CategoryIds |-> FALSE],
     result |-> [c \in CategoryIds |-> {}],
     \* the categories scanned since all of them had been scanned
     since |-> {}]

recordHistory(h, kind, nextCategory, ids) ==
    [autoRuns |-> h.autoRuns + (IF kind = "auto" THEN 1 ELSE 0),
     manualRuns |-> h.manualRuns + (IF kind = "manual" THEN 1 ELSE 0),
     age |-> [c \in CategoryIds |->
                IF c = nextCategory THEN 0
                ELSE h.age[c] + (IF kind = "auto" THEN 1 ELSE 0)],
     scanned |-> [h.scanned EXCEPT ![nextCategory] = TRUE],
     result |-> [h.result EXCEPT ![nextCategory] = ids],
     since |-> (IF h.since = CategoryIds THEN {} ELSE h.since)
                    \cup {nextCategory}]

(***************************************************************************)
(* run, as one step: load, choose, scan, merge, update, save.              *)
(*   kind, categoryKey   automatic (staged-scanner.js) or manual           *)
(*                       (manual-scan.js with its category)                *)
(*   found               what scanCategory returned                        *)
(*   skew                the clock's advance between the category's time   *)
(*                       stamp and lastFullScan's                          *)
(* An invocation reads the clock after the one before it has ended, so its *)
(* readings are later.  The records of one scan carry the reading of the   *)
(* category's time stamp.                                                  *)
(*   repoReadFails, statusReadFails, writeFails ("none", "first",          *)
(*   "second")           the file system's behaviour                       *)
(***************************************************************************)
run(kind, categoryKey, found, skew, repoReadFails, statusReadFails, writeFails) ==
    LET existingRepos == loadRepositories(repoReadFails)
        scanStatus == loadScanStatus(statusReadFails)
        next == IF kind = "auto" THEN getNextCategory(scanStatus)
                ELSE manualGetNextCategory(scanStatus, categoryKey)
        nextCategory == next.category
        now == clock + 1
        updatedRepos ==
            mergeRepositories(existingRepos, nextCategory, found.ids, now)
        updatedStatus ==
            updateScanStatus(startCycle(next.scanStatus, next.isNewCycle),
                             nextCategory, now, now + skew)
        saved == writeFails = "none"
    IN  \* saveData: repositoriesFile first, statusFile second
        /\ repositoriesFile' =
                IF writeFails = "first" THEN repositoriesFile ELSE updatedRepos
        /\ statusFile' = IF saved THEN updatedStatus ELSE statusFile
        /\ clock' = IF cycleComplete(updatedStatus) THEN now + skew ELSE now
        /\ last' =
            [kind |-> kind, asked |-> categoryKey, category |-> nextCategory,
             isNewCycle |-> next.isNewCycle,
             ids |-> found.ids, length |-> found.length, now |-> now,
             outcome |-> IF saved THEN "ok" ELSE "failed",
             repoReadFails |-> repoReadFails,
             statusReadFails |-> statusReadFails,
             written |-> CASE writeFails = "first" -> 0
                           [] writeFails = "second" -> 1
                           [] OTHER -> 2,
             allScannedSince |-> hist.since = CategoryIds,
             entry |-> scanStatus,
             stale |-> {r \in RepoIds : existingRepos[r].category = nextCategory}]
        /\ hist' = IF saved THEN recordHistory(hist, kind, nextCategory, found.ids)
                   ELSE hist

(***************************************************************************)
(* The scanner from an empty data directory, every read and write          *)
(* succeeding: automatic and manual invocations, one after the other.      *)
(***************************************************************************)
\* run between its awaits: where it is, what it loaded, what scanCategory
\* returned, and how many times it has called scanCategory and saveData
notRunning ==
    [pc |-> "idle", kind |-> "none", categoryKey |-> "none",
     existingRepos |-> emptyRepositories, scanStatus |-> defaultScanStatus,
     categoryRepos |-> [ids |-> {}, length |-> 0],
     scans |-> 0, saves |-> 0]

InitCoordinator ==
    /\ repositoriesFile = emptyRepositories
    /\ statusFile = defaultScanStatus
    /\ clock = 0
    /\ last = noInvocation
    /\ hist = noHistory
    /\ running = notRunning

\* What an observer of one scan has seen: the terms searched, in order, and
\* the candidates handed to enrichRepository, in order; of the last search,
\* the perPage it asked for, whether it threw, the number of items it
\* returned and how many of them were handed to enrichRepository; overdue:
\* whether the timeout had passed before one of the calls of enrichRepository.
noScanLog ==
    [searched |-> <<>>, enriched |-> <<>>, overdue |-> FALSE,
     perPage |-> 0, threw |-> FALSE, returned |-> 0, count |-> 0]

InitScan ==
    /\ scan = scanIdle
    /\ scanLog = noScanLog
    /\ scenario = <<>>

Init == InitCoordinator /\ InitScan

AutoRun ==
    /\ clock < MaxTime
    /\ \E found \in categoryRepos, skew \in {0, 1} :
            run("auto", "none", found, skew, FALSE, FALSE, "none")
    /\ UNCHANGED <<scanVars, running>>

ManualRun ==
    /\ clock < MaxTime
    /\ \E categoryKey \in CategoryIds, found \in categoryRepos, skew \in {0, 1} :
            run("manual", categoryKey, found, skew, FALSE, FALSE, "none")
    /\ UNCHANGED <<scanVars, running>>

Next == AutoRun \/ ManualRun

Spec == Init /\ [][Next]_vars

(***************************************************************************)
(* One category scan, step by step, over every behaviour of the search     *)
(* capability and of the enrichment.                                       *)
(***************************************************************************)
logSearch(log, s) ==
    [log EXCEPT !.searched = Append(@, s.term),
                !.perPage = searchOptions.perPage,
                !.returned = 0,
                !.count = 0]

logThrown(log, s) == [logSearch(log, s) EXCEPT !.threw = TRUE]

logReturned(log, s, items) ==
    [logSearch(log, s) EXCEPT !.threw = FALSE, !.returned = Len(items)]

logEnrich(log, s) ==
    IF enriches(s)
    THEN [log EXCEPT !.enriched = Append(@, Head(s.repos)),
                     !.count = @ + 1,
                     !.overdue = @ \/ s.expired]
    ELSE log

ScanBegin ==
    /\ scan.pc = "Idle"
    /\ scan' = scanBegin(scan)
    /\ UNCHANGED <<scanLog, scenario, coordVars>>

ScanTimeout ==
    /\ scan.pc = "Searching"
    /\ timeoutReached(scan)
    /\ scan' = timeoutBreak(scan)
    /\ UNCHANGED <<scanLog, scenario, coordVars>>

ScanSearchThrows ==
    /\ scan.pc = "Searching"
    /\ ~timeoutReached(scan)
    /\ \E late \in BOOLEAN : scan' = searchThrows(scan, late)
    /\ scanLog' = logThrown(scanLog, scan)
    /\ UNCHANGED <<scenario, coordVars>>

ScanSearchReturns ==
    /\ scan.pc = "Searching"
    /\ ~timeoutReached(scan)
    /\ \E items \in SearchItems(ScanRepoIds), late \in BOOLEAN :
            /\ scan' = searchReturns(scan, items, late)
            /\ scanLog' = logReturned(scanLog, scan, items)
    /\ UNCHANGED <<scenario, coordVars>>

ScanResultStep ==
    /\ scan.pc = "Enriching"
    /\ \E enriched \in BOOLEAN, late \in BOOLEAN :
            scan' = resultStep(scan, enriched, late)
    /\ scanLog' = logEnrich(scanLog, scan)
    /\ UNCHANGED <<scenario, coordVars>>

ScanNext ==
    \/ ScanBegin
    \/ ScanTimeout
    \/ ScanSearchThrows
    \/ ScanSearchReturns
    \/ ScanResultStep

ScanSpec == Init /\ [][ScanNext]_vars

(***************************************************************************)
(* The category scan with the search capability's own handling of a rate   *)
(* limit: GitHubAPI.searchRepositories, on a 403 whose message names the    *)
(* rate limit, waits 60 seconds and calls itself again with the same query,*)
(* as often as the answer is the same.  scanCategory is inside its await    *)
(* meanwhile (pc RateLimited) and does not look at its timeout.  scanLog's  *)
(* searched holds every search request, in order.                          *)
(***************************************************************************)
\* The requests for one term the model follows.
MaxRequests == 3

\* catch (error) { if (error.status === 403 && ...) await this.delay(60000)
rateLimited(s, late) ==
    [s EXCEPT !.pc = "RateLimited", !.expired = @ \/ late]

\* the search requests made so far for the term of this iteration
requestsOf(log, s) == occurrences(log.searched, s.term)

\* the first request of a term is answered with the rate limit
ScanSearchRateLimited ==
    /\ scan.pc = "Searching"
    /\ ~timeoutReached(scan)
    /\ \E late \in BOOLEAN : scan' = rateLimited(scan, late)
    /\ scanLog' = logSearch(scanLog, scan)
    /\ UNCHANGED <<scenario, coordVars>>

\* return this.searchRepositories(query, options): rate limit again
ScanRetryRateLimited ==
    /\ scan.pc = "RateLimited"
    /\ requestsOf(scanLog, scan) + 1 < MaxRequests
    /\ \E late \in BOOLEAN : scan' = rateLimited(scan, late)
    /\ scanLog' = logSearch(scanLog, scan)
    /\ UNCHANGED <<scenario, coordVars>>

\* return this.searchRepositories(query, options): another error
ScanRetryThrows ==
    /\ scan.pc = "RateLimited"
    /\ \E late \in BOOLEAN : scan' = searchThrows(scan, late)
    /\ scanLog' = logThrown(scanLog, scan)
    /\ UNCHANGED <<scenario, coordVars>>

\* return this.searchRepositories(query, options): results
ScanRetryReturns ==
    /\ scan.pc = "RateLimited"
    /\ \E items \in SearchItems(ScanRepoIds), late \in BOOLEAN :
            /\ scan' = searchReturns(scan, items, late)
            /\ scanLog' = logReturned(scanLog, scan, items)
    /\ UNCHANGED <<scenario, coordVars>>

ThrottledNext ==
    \/ ScanNext
    \/ ScanSearchRateLimited
    \/ ScanRetryRateLimited
    \/ ScanRetryThrows
    \/ ScanRetryReturns

ThrottledSpec == Init /\ [][ThrottledNext]_vars

(***************************************************************************)
(* A scripted scan: a category of two search terms whose searches return   *)
(* three candidates each, all six different, every enrichment succeeding   *)
(* and the timeout never passing, with a category limit of five.           *)
(***************************************************************************)
ScriptedRepoIds == {"s1", "s2", "s3", "s4", "s5", "s6"}

UniqueItems(S, n) ==
    {q \in SeqsUpTo(S, n) :
        Len(q) = n /\ \A i, j \in 1..n : i # j => q[i] # q[j]}

Scripts ==
    {<<first, second>> :
        first \in UniqueItems(ScriptedRepoIds, 3),
        second \in UniqueItems(ScriptedRepoIds, 3)}

InitScripted ==
    /\ InitCoordinator
    /\ scan = [scanIdle EXCEPT !.maxReposPerCategory = 5]
    /\ scanLog = noScanLog
    /\ scenario \in {script \in Scripts :
                        Range(script[1]) \cap Range(script[2]) = {}}

ScriptedSearchReturns ==
    /\ scan.pc = "Searching"
    /\ ~timeoutReached(scan)
    /\ scan.term \in DOMAIN scenario
    /\ scan' = searchReturns(scan, scenario[scan.term], FALSE)
    /\ scanLog' = logReturned(scanLog, scan, scenario[scan.term])
    /\ UNCHANGED <<scenario, coordVars>>

ScriptedResultStep ==
    /\ scan.pc = "Enriching"
    /\ scan' = resultStep(scan, TRUE, FALSE)
    /\ scanLog' = logEnrich(scanLog, scan)
    /\ UNCHANGED <<scenario, coordVars>>

ScriptedNext ==
    \/ ScanBegin
    \/ ScriptedSearchReturns
    \/ ScriptedResultStep

ScriptedSpec == InitScripted /\ [][ScriptedNext]_vars

(***************************************************************************)
(* A scan whose searches are scripted and nothing else: the search for the *)
(* first term answers with one list and the search for the second with     *)
(* another (the same repository may be in both, or twice in one), or       *)
(* throws; enrichments succeed or fail and the timeout passes when it      *)
(* passes.                                                                 *)
(***************************************************************************)
InitOrdered ==
    /\ InitCoordinator
    /\ scan = scanIdle
    /\ scanLog = noScanLog
    /\ scenario \in {<<first, second>> :
                        first \in SearchItems(ScanRepoIds),
                        second \in SearchItems(ScanRepoIds)}

OrderedNext ==
    \/ ScanBegin
    \/ ScanTimeout
    \/ ScanSearchThrows
    \/ ScriptedSearchReturns
    \/ ScanResultStep

OrderedSpec == InitOrdered /\ [][OrderedNext]_vars

(***************************************************************************)
(* enrichRepository: the auxiliary fetches and what becomes of their        *)
(* failures.  A fetch ends "ok" (data), "notFound" (404) or "error" (any    *)
(* other error; the waits and retries after a rate limit error end in one   *)
(* of the three).                                                           *)
(***************************************************************************)
FetchOutcomes == {"ok", "notFound", "error"}

\* GitHubAPI.getRepositoryContents: null for a 404, throws otherwise
getRepositoryContents(outcome) ==
    CASE outcome = "ok" -> "data"
      [] outcome = "notFound" -> "null"
      [] OTHER -> "throws"

\* getRepositoryReleases, getRepositoryCommits, getRepositoryContributors:
\* return []; // ... or error
getRepositoryList(outcome) ==
    IF outcome = "ok" THEN "data" ELSE "empty"

\* checkForFile: try { return !!content } catch { return false }
checkForFile(outcome) == getRepositoryContents(outcome) = "data"

\* checkForCI: the first of ciFiles that exists
ciFiles ==
    <<".github/workflows", ".travis.yml", ".circleci/config.yml",
      "azure-pipelines.yml", ".gitlab-ci.yml">>

checkForCI(outcomes) ==
    \E i \in DOMAIN ciFiles : checkForFile(outcomes[i])

\* enrichRepository, as far as the fetches go: null when something threw
\* inside its try (or html_url did not parse), else the pieces the score
\* and the record are made from
nullRepo == [null |-> TRUE]

enrichRepository(fetched) ==
    LET readme == getRepositoryContents(fetched.readme)
    IN IF ~fetched.urlParses THEN nullRepo
       ELSE IF readme = "throws" THEN nullRepo
       ELSE [null |-> FALSE,
             readme |-> readme,
             releases |-> getRepositoryList(fetched.releases),
             commits |-> getRepositoryList(fetched.commits),
             contributors |-> getRepositoryList(fetched.contributors),
             hasLicense |-> checkForFile(fetched.license),
             hasContributing |-> checkForFile(fetched.contributing),
             hasCI |-> checkForCI(fetched.ci)]

Fetches ==
    [urlParses : BOOLEAN,
     readme : FetchOutcomes,
     releases : {"ok", "error"},
     commits : {"ok", "error"},
     contributors : {"ok", "error"},
     license : FetchOutcomes,
     contributing : FetchOutcomes,
     ci : [DOMAIN ciFiles -> {"ok", "notFound"}]
            \cup {[i \in DOMAIN ciFiles |-> "error"]}]

InitEnrich ==
    /\ InitCoordinator
    /\ scan = scanIdle
    /\ scanLog = noScanLog
    /\ scenario \in {[pc |-> "called", fetched |-> f] : f \in Fetches}

EnrichReturns ==
    /\ scenario.pc = "called"
    /\ scenario' = [pc |-> "returned", fetched |-> scenario.fetched,
                    enrichedRepo |-> enrichRepository(scenario.fetched)]
    /\ UNCHANGED <<scan, scanLog, coordVars>>

EnrichSpec == InitEnrich /\ [][EnrichReturns]_vars

(***************************************************************************)
(* QualityScorer.  Scores are JavaScript numbers; the only fractions come   *)
(* from stars / 1000 * 10 and forks / 200 * 5, so every score is a whole    *)
(* number of 1/Scale points and is kept as that whole number (rounding      *)
(* errors of the floating point division are left out).  Dates are day      *)
(* numbers; moment().diff(d, 'days') is now - d.  A value that is null or   *)
(* undefined is the empty set, a value v that is there is {v}.              *)
(***************************************************************************)
Scale == 200

points(n) == n * Scale

present(x) == x # {}

the(x) == CHOOSE v \in x : TRUE

\* hasWiki ? 5 : 0 and the like: undefined counts as false
truthy(x) == x = {TRUE}

\* Math.min
\* (a minimum that lets its first argument through)
uncapped(a, b) == a

Min(a, b) == IF a <= b THEN a ELSE b

\* 25 points max: Stars (20) + Forks (5)
calculatePopularityScore(repo) ==
    LET starScore == Min((repo.stargazers_count * 10 * Scale) \div 1000,
                         points(20))
        forkScore == Min((repo.forks_count * 5 * Scale) \div 200, points(5))
    IN starScore + forkScore

\* 20 points max: Recent commits (15) + Recent releases (5)
calculateActivityScore(repo, releases, now) ==
    LET daysSinceUpdate == now - repo.pushed_at
        commitScore ==
            IF daysSinceUpdate <= 7 THEN 15
            ELSE IF daysSinceUpdate <= 30 THEN 12
            ELSE IF daysSinceUpdate <= 90 THEN 8
            ELSE IF daysSinceUpdate <= 180 THEN 4
            ELSE 0
        releaseScore ==
            IF present(releases) /\ Len(the(releases)) > 0
            THEN LET daysSinceRelease == now - the(releases)[1]
                 IN IF daysSinceRelease <= 90 THEN 5
                    ELSE IF daysSinceRelease <= 180 THEN 3
                    ELSE IF daysSinceRelease <= 365 THEN 1
                    ELSE 0
            ELSE 0
    IN points(commitScore + releaseScore)

\* if (readme): the guard of the README part
\* (a documentation score that decodes the README without the guard)
readmeAssumed(readme) == TRUE

readmeGiven(readme) == present(readme)

\* 20 points max: README quality (15) + Wiki/Docs (5)
calculateDocumentationScore(readme, hasWiki) ==
    LET content == the(the(readme).content)
        readmeScore ==
            IF readmeGiven(readme)
            THEN (IF content.length > 500 THEN 5 ELSE 0)
                 + (IF content.length > 2000 THEN 3 ELSE 0)
                 + (IF content.length > 5000 THEN 2 ELSE 0)
                 + (IF content.headers THEN 2 ELSE 0)
                 + (IF content.code THEN 2 ELSE 0)
                 + (IF content.badge THEN 1 ELSE 0)
            ELSE 0
        wikiScore == IF truthy(hasWiki) THEN 5 ELSE 0
    IN points(Min(readmeScore, 15) + wikiScore)

\* Buffer.from(readme.content, 'base64') throws a TypeError when there is no
\* readme to read content from, or no content
documentationRaises(readme) ==
    readmeGiven(readme) /\ (~present(readme) \/ ~present(the(readme).content))

\* 15 points max: License (8) + Contributing (4) + Issues/Community (3)
calculateCommunityScore(repo, hasLicense, hasContributing) ==
    LET licenseScore == IF truthy(hasLicense) THEN 8 ELSE 0
        contributingScore == IF truthy(hasContributing) THEN 4 ELSE 0
        communityScore ==
            (IF repo.open_issues_count > 0 /\ repo.open_issues_count < 100
             THEN 2 ELSE 0)
            + (IF repo.has_issues THEN 1 ELSE 0)
    IN points(licenseScore + contributingScore + communityScore)

RECURSIVE sumOf(_)
sumOf(q) == IF q = <<>> THEN 0 ELSE Head(q) + sumOf(Tail(q))

\* if (releases.length >= 3): Check for regular release pattern
\* (a maintenance score that looks for the pattern in any list of releases)
patternAlways(list) == TRUE

patternChecked(list) == Len(list) >= 3

\* 10 points max: Regular releases and maintenance patterns
calculateMaintenanceScore(releases) ==
    LET list == the(releases)
        gaps == [i \in 1..Min(Len(list) - 1, 5) |-> list[i] - list[i + 1]]
        \* avgGap <= 90 with avgGap = sum / length
        regularity ==
            IF sumOf(gaps) <= 90 * Len(gaps) THEN 3
            ELSE IF sumOf(gaps) <= 180 * Len(gaps) THEN 2
            ELSE 1
        score ==
            IF present(releases) /\ Len(list) > 0
            THEN Min(Len(list), 5)
                 + (IF patternChecked(list) THEN regularity ELSE 0)
            ELSE 0
    IN points(Min(score, 10))

\* 10 points max: Topics (3) + CI/CD (4) + Not archived (3)
calculateCodeQualityScore(repo, hasCI) ==
    points((IF repo.topics > 0 THEN Min(repo.topics, 3) ELSE 0)
           + (IF truthy(hasCI) THEN 4 ELSE 0)
           + (IF ~repo.archived THEN 3 ELSE 0))

calculateGrade(score) ==
    IF score >= points(90) THEN "A+"
    ELSE IF score >= points(80) THEN "A"
    ELSE IF score >= points(70) THEN "B"
    ELSE IF score >= points(60) THEN "C"
    ELSE IF score >= points(50) THEN "D"
    ELSE "F"

\* Math.round of a score that is not negative, in whole points
round(score) == (score + Scale \div 2) \div Scale

\* additionalData = {}: the enrichment data left out is an object without
\* any field
noAdditionalData ==
    [readme |-> {}, releases |-> {}, hasWiki |-> {}, hasLicense |-> {},
     hasContributing |-> {}, hasCI |-> {}]

\* calculateScore; now: what moment() reads while it runs.  breakdown is in
\* 1/Scale points, total in whole points.
calculateScore(repo, additionalData, now) ==
    LET data == IF present(additionalData) THEN the(additionalData)
                ELSE noAdditionalData
        scores ==
            [popularity |-> calculatePopularityScore(repo),
             activity |-> calculateActivityScore(repo, data.releases, now),
             documentation |->
                calculateDocumentationScore(data.readme, data.hasWiki),
             community |->
                calculateCommunityScore(repo, data.hasLicense,
                                        data.hasContributing),
             maintenance |-> calculateMaintenanceScore(data.releases),
             codeQuality |-> calculateCodeQualityScore(repo, data.hasCI)]
        totalScore ==
            scores.popularity + scores.activity + scores.documentation
            + scores.community + scores.maintenance + scores.codeQuality
    IN IF documentationRaises(data.readme) THEN [raised |-> TRUE]
       ELSE [raised |-> FALSE,
             total |-> round(totalScore),
             grade |-> calculateGrade(totalScore),
             breakdown |-> scores,
             maxPoints |-> 100]

(***************************************************************************)
(* The scorer's inputs.  Two repositories, one with everything and one     *)
(* with nothing, and around each of them every value of the inputs of one  *)
(* sub-score at a time; the enrichment data with any field missing, and    *)
(* left out altogether.                                                    *)
(***************************************************************************)
Nows == {400, 401}

richRepo ==
    [stargazers_count |-> 1000, forks_count |-> 200, pushed_at |-> 398,
     open_issues_count |-> 5, has_issues |-> TRUE, topics |-> 3,
     archived |-> FALSE]

richContent == [length |-> 6000, headers |-> TRUE, code |-> TRUE, badge |-> TRUE]

richData ==
    [readme |-> {[content |-> {richContent}]}, releases |-> {<<390>>},
     hasWiki |-> {TRUE}, hasLicense |-> {TRUE}, hasContributing |-> {TRUE},
     hasCI |-> {TRUE}]

poorRepo ==
    [stargazers_count |-> 0, forks_count |-> 0, pushed_at |-> 0,
     open_issues_count |-> 0, has_issues |-> FALSE, topics |-> 0,
     archived |-> TRUE]

releaseList(n, latest, gap) == [i \in 1..n |-> latest - (i - 1) * gap]

ReleaseLists ==
    {<<>>} \cup {releaseList(n, latest, gap) :
                    n \in 1..6, latest \in {400, 310, 220, 35, 0},
                    gap \in {30, 91, 181}}

Contents ==
    [length : {0, 500, 501, 2001, 5001, 6000},
     headers : BOOLEAN, code : BOOLEAN, badge : BOOLEAN]

Flags == {{}, {TRUE}, {FALSE}}

ScoreInputs ==
    LET Bases == {[repo |-> richRepo, data |-> richData],
                  [repo |-> poorRepo, data |-> noAdditionalData]}
        popular(b) ==
            {[b EXCEPT !.repo.stargazers_count = stars,
                       !.repo.forks_count = forks] :
                stars \in {0, 50, 850, 1000, 1850, 2000, 5000},
                forks \in {0, 10, 20, 200, 400}}
        active(b) ==
            {[b EXCEPT !.repo.pushed_at = pushed, !.data.releases = releases] :
                pushed \in {400, 393, 370, 310, 220, 219, 0},
                releases \in {{}} \cup {{list} : list \in ReleaseLists}}
        documented(b) ==
            {[b EXCEPT !.data.readme = readme, !.data.hasWiki = hasWiki] :
                readme \in {{}} \cup {{[content |-> {c}]} : c \in Contents},
                hasWiki \in Flags}
        communal(b) ==
            {[b EXCEPT !.data.hasLicense = hasLicense,
                       !.data.hasContributing = hasContributing,
                       !.repo.open_issues_count = issues,
                       !.repo.has_issues = has_issues] :
                hasLicense \in Flags, hasContributing \in Flags,
                issues \in {0, 1, 99, 100}, has_issues \in BOOLEAN}
        coded(b) ==
            {[b EXCEPT !.repo.topics = topics, !.data.hasCI = hasCI,
                       !.repo.archived = archived] :
                topics \in 0..4, hasCI \in Flags, archived \in BOOLEAN}
        given ==
            UNION {popular(b) \cup active(b) \cup documented(b)
                   \cup communal(b) \cup coded(b) : b \in Bases}
    IN {[repo |-> g.repo, additionalData |-> {g.data}] : g \in given}
       \cup {[repo |-> repo, additionalData |-> {}] :
                repo \in {richRepo, poorRepo}}

InitScore ==
    /\ InitCoordinator
    /\ scan = scanIdle
    /\ scanLog = noScanLog
    /\ scenario \in {[pc |-> "called", input |-> input] : input \in ScoreInputs}

\* calculateQualityScore(repo, additionalData)
ScoreReturns ==
    /\ scenario.pc = "called"
    /\ \E now \in Nows :
            scenario' =
                [pc |-> "returned", input |-> scenario.input, now |-> now,
                 qualityScore |->
                    calculateScore(scenario.input.repo,
                                   scenario.input.additionalData, now)]
    /\ UNCHANGED <<scan, scanLog, coordVars>>

\* the same call once more, on the same repository and enrichment data
ScoreAgain ==
    /\ scenario.pc = "returned"
    /\ \E now \in Nows :
            scenario' =
                [pc |-> "again", input |-> scenario.input, now |-> now,
                 qualityScore |-> scenario.qualityScore,
                 second |->
                    calculateScore(scenario.input.repo,
                                   scenario.input.additionalData, now)]
    /\ UNCHANGED <<scan, scanLog, coordVars>>

ScoreNext == ScoreReturns \/ ScoreAgain

ScoreSpec == InitScore /\ [][ScoreNext]_vars

(***************************************************************************)
(* calculateMaintenanceScore on two lists of releases, newest first, that  *)
(* have the same five most recent releases and one or two older ones, and  *)
(* that differ in the time stamp of one of the older ones.  Time stamps    *)
(* are days; an older release is published no later than the one before.   *)
(***************************************************************************)
\* the releases after the fifth: the sixth so many days before the fifth,
\* the seventh, when there is one, so many days before the sixth
olderReleases(fifth) ==
    {<<fifth - d>> : d \in {0, 30, 200, 1000}}
        \cup {<<fifth - d, fifth - d - e>> :
                    d \in {0, 30, 200, 1000}, e \in {30, 500}}

differInOne(a, b) ==
    /\ Len(a) = Len(b)
    /\ Cardinality({i \in DOMAIN a : a[i] # b[i]}) = 1

MaintenanceCases ==
    UNION {{[releases |-> releaseList(5, latest, gap) \o pair[1],
             changed |-> releaseList(5, latest, gap) \o pair[2]] :
                pair \in {p \in olderReleases(latest - 4 * gap)
                                    \X olderReleases(latest - 4 * gap) :
                                differInOne(p[1], p[2])}} :
           latest \in {4000, 3100}, gap \in {30, 91, 181}}

InitMaintenance ==
    /\ InitCoordinator
    /\ scan = scanIdle
    /\ scanLog = noScanLog
    /\ scenario \in {[pc |-> "called", input |-> case] :
                        case \in MaintenanceCases}

MaintenanceReturns ==
    /\ scenario.pc = "called"
    /\ scenario' =
         [pc |-> "returned", input |-> scenario.input,
          score |-> calculateMaintenanceScore({scenario.input.releases}),
          changedScore |-> calculateMaintenanceScore({scenario.input.changed})]
    /\ UNCHANGED <<scan, scanLog, coordVars>>

MaintenanceSpec == InitMaintenance /\ [][MaintenanceReturns]_vars

(***************************************************************************)
(* The legacy full scanner (RepositoryScanner): scanCategories walks all   *)
(* the categories in one process, scanCategory collects one category in a  *)
(* local list and appends it to this.repositories when the category is     *)
(* over.  Repositories are recorded by the category they were found in;    *)
(* the limits are the three of the constructor.  The state is followed     *)
(* from loop head to loop head.                                            *)
(***************************************************************************)
\* The categories of the legacy scan (the configuration has eight).
NumCategories == 2
\* The largest value of each of the three limits.
MaxLimit == 3

LegacyLimits ==
    [maxReposPerSearch : 1..2,
     maxReposPerCategory : 1..MaxLimit,
     maxTotalRepos : 1..MaxLimit]

legacyStart(limits) ==
    [pc |-> "categories", limits |-> limits, category |-> 1, term |-> 1,
     items |-> 0, repositories |-> <<>>, thisRepositories |-> <<>>,
     timedOut |-> FALSE]

isTimeoutReached(l) == l.timedOut

categoryLimitReached(l) ==
    Len(l.repositories) >= l.limits.maxReposPerCategory

\* this.repositories.length >= this.maxTotalRepos
totalLimitReached(l) ==
    Len(l.thisRepositories) >= l.limits.maxTotalRepos

\* this.repositories.push(...repositories), at the end of scanCategory
pushCategory(l) ==
    [l EXCEPT !.pc = "categories", !.category = @ + 1,
              !.thisRepositories = @ \o l.repositories,
              !.repositories = <<>>, !.items = 0]

InitLegacy ==
    /\ InitCoordinator
    /\ scan = scanIdle
    /\ scanLog = noScanLog
    /\ scenario \in {legacyStart(limits) : limits \in LegacyLimits}

\* Date.now() passes searchTimeoutMinutes
LegacyTimeout ==
    /\ scenario.pc \in {"categories", "terms", "items"}
    /\ ~scenario.timedOut
    /\ scenario' = [scenario EXCEPT !.timedOut = TRUE]
    /\ UNCHANGED <<scan, scanLog, coordVars>>

\* scanCategories: the head of the loop over the categories
LegacyCategoryStep ==
    /\ scenario.pc = "categories"
    /\ scenario' =
         IF \/ scenario.category > NumCategories
            \/ isTimeoutReached(scenario)
            \/ totalLimitReached(scenario)
         THEN [scenario EXCEPT !.pc = "returned"]
         ELSE [scenario EXCEPT !.pc = "terms", !.term = 1,
                               !.repositories = <<>>]
    /\ UNCHANGED <<scan, scanLog, coordVars>>

\* scanCategory: the head of the loop over the search terms, and the search
LegacyTermStep ==
    /\ scenario.pc = "terms"
    /\ IF \/ scenario.term > NumTerms
          \/ isTimeoutReached(scenario)
          \/ categoryLimitReached(scenario)
          \/ totalLimitReached(scenario)
       THEN scenario' = pushCategory(scenario)
       ELSE \/ \E n \in 0..scenario.limits.maxReposPerSearch :
                 scenario' = [scenario EXCEPT !.pc = "items", !.items = n]
            \* catch (error) { continue }
            \/ scenario' = [scenario EXCEPT !.term = @ + 1]
    /\ UNCHANGED <<scan, scanLog, coordVars>>

\* scanCategory: one turn of the loop over results.items
LegacyItemStep ==
    /\ scenario.pc = "items"
    /\ IF \/ scenario.items = 0
          \/ categoryLimitReached(scenario)
          \/ totalLimitReached(scenario)
       THEN scenario' = [scenario EXCEPT !.pc = "terms", !.term = @ + 1,
                                         !.items = 0]
       ELSE \E kept \in BOOLEAN :
              scenario' =
                [scenario EXCEPT
                   !.items = @ - 1,
                   !.repositories =
                       IF kept THEN Append(@, scenario.category) ELSE @]
    /\ UNCHANGED <<scan, scanLog, coordVars>>

LegacyNext ==
    LegacyTimeout \/ LegacyCategoryStep \/ LegacyTermStep \/ LegacyItemStep

LegacySpec == InitLegacy /\ [][LegacyNext]_vars

(***************************************************************************)
(* run followed from await to await: loadExistingData, scanCategory,       *)
(* saveData.  Nothing else runs in between: one process, one invocation at *)
(* a time.                                                                 *)
(***************************************************************************)
runLoads(kind, categoryKey) ==
    [notRunning EXCEPT !.pc = "loaded", !.kind = kind,
                       !.categoryKey = categoryKey,
                       !.existingRepos = loadRepositories(FALSE),
                       !.scanStatus = loadScanStatus(FALSE)]

runScans(r, found) ==
    [r EXCEPT !.pc = "scanned", !.categoryRepos = found, !.scans = @ + 1]

\* await this.saveData(updatedRepos, scanStatus) comes after
\* await this.scanCategory(nextCategory)
\* (a run that saves as soon as it has chosen the category)
savesBeforeScan(r) == r.pc \in {"loaded", "scanned"}

savesAfterScan(r) == r.pc = "scanned"

RunLoad ==
    /\ clock < MaxTimeIO
    /\ running.pc \in {"idle", "saved"}
    /\ \/ running' = runLoads("auto", "none")
       \/ \E categoryKey \in CategoryIds :
                running' = runLoads("manual", categoryKey)
    /\ UNCHANGED <<repositoriesFile, statusFile, clock, last, hist, scanVars>>

RunScan ==
    /\ running.pc = "loaded"
    /\ \E found \in categoryRepos : running' = runScans(running, found)
    /\ UNCHANGED <<repositoriesFile, statusFile, clock, last, hist, scanVars>>

RunSave ==
    /\ savesAfterScan(running)
    /\ \E skew \in {0, 1} :
            run(running.kind, running.categoryKey, running.categoryRepos,
                skew, FALSE, FALSE, "none")
    /\ running' = [running EXCEPT !.pc = "saved", !.saves = @ + 1]
    /\ UNCHANGED scanVars

RunNext == RunLoad \/ RunScan \/ RunSave

RunSpec == Init /\ [][RunNext]_vars

(***************************************************************************)
(* The scanner with a file system that can fail: a read of either document *)
(* at the start of run, a write of either at its end.  A write that fails  *)
(* leaves its file as it was, and saveData stops there.                    *)
(***************************************************************************)
AutoRunIO ==
    /\ clock < MaxTimeIO
    /\ \E found \in categoryRepos, skew \in {0, 1},
          repoReadFails \in BOOLEAN, statusReadFails \in BOOLEAN,
          writeFails \in {"none", "first", "second"} :
            run("auto", "none", found, skew,
                repoReadFails, statusReadFails, writeFails)
    /\ UNCHANGED <<scanVars, running>>

ManualRunIO ==
    /\ clock < MaxTimeIO
    /\ \E categoryKey \in CategoryIds, found \in categoryRepos, skew \in {0, 1},
          repoReadFails \in BOOLEAN, statusReadFails \in BOOLEAN,
          writeFails \in {"none", "first", "second"} :
            run("manual", categoryKey, found, skew,
                repoReadFails, statusReadFails, writeFails)
    /\ UNCHANGED <<scanVars, running>>

NextIO == AutoRunIO \/ ManualRunIO

SpecIO == Init /\ [][NextIO]_vars

(***************************************************************************)
(* The scanner started on any status document of the documented shape:     *)
(* run reads data/scan-status.json as it finds it.  The documents the      *)
(* scanner writes itself are among them, the empty one included.           *)
(***************************************************************************)
InjectiveSeqs(S) ==
    {q \in SeqsUpTo(S, Cardinality(S)) :
        \A i, j \in 1..Len(q) : i # j => q[i] # q[j]}

AnyScanStatus ==
    {[lastScannedCategory |-> "null",
      completedCategories |-> completed,
      currentCycle |-> 1,
      lastFullScan |-> lastFullScan,
      categoryTimestamps |-> timestamps,
      lastScanTime |-> 0] :
        completed \in InjectiveSeqs(CategoryIds),
        lastFullScan \in 0..AnyTime,
        timestamps \in [CategoryIds -> 0..AnyTime]}

InitAny ==
    /\ repositoriesFile = emptyRepositories
    /\ statusFile \in AnyScanStatus
    /\ clock = AnyTime
    /\ last = noInvocation
    /\ hist = noHistory
    /\ running = notRunning
    /\ InitScan

SpecAny == InitAny /\ [][Next]_vars

(***************************************************************************)
(* Properties.                                                             *)
(***************************************************************************)
timestampOf(scanStatus, cat) == scanStatus.categoryTimestamps[cat]

recordsOf(repositories, cat) ==
    {r \in RepoIds : repositories[r] # NoRecord /\ repositories[r].category = cat}

\* C1: in every persisted scan status, getNextCategory selects a category
\* whose last-scan time stamp is earliest, a category without a time stamp
\* (never scanned, 0 here) counting as older than every category with one.
C1_OldestFirst ==
    \A cat \in CategoryIds :
        timestampOf(statusFile, getNextCategory(statusFile).category)
            <= timestampOf(statusFile, cat)

\* C2: no category is starved: counting the automatic invocations since a
\* category was last scanned, no category ever waits for as many as there
\* are categories (the README's "never more than 8 days old" for 8).
C2_NoStarvation ==
    \A cat \in CategoryIds : hist.age[cat] < Len(allCategories)

\* C3: from the empty status, with automatic invocations only, the k-th
\* invocation scans the k-th category in configuration order, for k up to
\* the number N of categories, and invocation N+1 scans the first again.
C3_RotationOrder ==
    (/\ last.kind = "auto"
     /\ hist.manualRuns = 0
     /\ hist.autoRuns <= Len(allCategories) + 1)
    => last.category =
            allCategories[((hist.autoRuns - 1) % Len(allCategories)) + 1]

\* C4: right after a step that scans category C, the records of the
\* repository map whose category is C are exactly the records scanCategory
\* returned: as many as it returned, each stamped by this scan, none left
\* from an earlier scan of C.
C4_MergeExact ==
    last.kind # "none"
    => /\ recordsOf(repositoriesFile, last.category) = last.ids
       /\ Cardinality(recordsOf(repositoriesFile, last.category)) = last.length
       /\ \A r \in recordsOf(repositoriesFile, last.category) :
                repositoriesFile[r] = enrichedRepo(r, last.category, last.now)

\* C4's case: the step rescanned a category that had records, returned
\* some records, and did not return one of the old ones.
C4_Witness ==
    /\ last.kind # "none"
    /\ last.ids # {}
    /\ last.stale \ last.ids # {}

\* C5: in every persisted state, the records of each category are exactly
\* the result of the most recent successful scan of that category.
C5_LatestScanOnly ==
    \A cat \in CategoryIds :
        recordsOf(repositoriesFile, cat) = hist.result[cat]

\* C6: an automatic invocation entered when every category has been scanned
\* since the previous full cycle (or since the empty state) increments
\* currentCycle.
C6_NewCycleCounted ==
    (last.kind = "auto" /\ last.allScannedSince)
    => statusFile.currentCycle = last.entry.currentCycle + 1

\* C7: an automatic step never clears state, also when it starts a new
\* cycle: every category completed before the step is completed after it,
\* and no time stamp of a category other than the scanned one is changed or
\* removed.
C7_NoClearing ==
    last.kind = "auto"
    => /\ Range(last.entry.completedCategories)
            \subseteq Range(statusFile.completedCategories)
       /\ \A cat \in CategoryIds \ {last.category} :
            timestampOf(statusFile, cat) = timestampOf(last.entry, cat)

\* C7's case: an automatic step that started a new cycle, with categories
\* completed and stamped before it that it did not scan.
C7_Witness ==
    /\ last.kind = "auto"
    /\ last.isNewCycle
    /\ statusFile.currentCycle = last.entry.currentCycle + 1
    /\ \E cat \in CategoryIds \ {last.category} :
            /\ cat \in Range(last.entry.completedCategories)
            /\ timestampOf(last.entry, cat) # 0

\* C8: the persist is all-or-nothing: when the repository map on disk holds
\* records of the last invocation's scan, the scan status on disk is that
\* invocation's too, and the other way round.
stepInRepositories ==
    \E r \in RepoIds : repositoriesFile[r].scannedAt = last.now

stepInStatus == statusFile.lastScanTime = last.now

C8_AllOrNothing ==
    (last.kind # "none" /\ last.ids # {})
    => (stepInRepositories <=> stepInStatus)

\* C9 as stated: an invocation that could not read one of the two documents
\* fails and writes no document.
C9_ReadFailureAborts ==
    (last.repoReadFails \/ last.statusReadFails)
    => (last.outcome = "failed" /\ last.written = 0)

\* C9 as amended: a failing read does not abort the invocation.  The
\* document that cannot be read is taken to be its default (the empty map;
\* the status with nothing completed, no time stamp, cycle 1), and unless a
\* write fails the invocation succeeds and persists the step made from it:
\* the map holds the scanned category's fresh records and nothing else, the
\* status holds the scanned category alone, which an automatic invocation
\* takes to be the first configured one.
C9_ReadFailureDefaults ==
    /\ (last.repoReadFails \/ last.statusReadFails)
        => (last.outcome = "ok" <=> last.written = 2)
    /\ (last.repoReadFails /\ last.outcome = "ok")
        => \A r \in RepoIds :
                repositoriesFile[r] =
                    IF r \in last.ids
                    THEN enrichedRepo(r, last.category, last.now)
                    ELSE NoRecord
    /\ (last.statusReadFails /\ last.outcome = "ok")
        => /\ statusFile.completedCategories = <<last.category>>
           /\ statusFile.currentCycle = 1
           /\ \A cat \in CategoryIds \ {last.category} :
                    timestampOf(statusFile, cat) = 0
           /\ timestampOf(statusFile, last.category) = last.now
           /\ last.kind = "auto" => last.category = allCategories[1]

\* C9's case: both reads failed after an earlier invocation had persisted
\* another category with a record, and the invocation succeeded.
C9_Witness ==
    /\ last.repoReadFails
    /\ last.statusReadFails
    /\ last.outcome = "ok"
    /\ \E cat \in CategoryIds \ {last.category} :
            hist.scanned[cat] /\ hist.result[cat] # {}

\* C10: scanCategory never holds, and so never returns, more than
\* maxReposPerCategory records.
C10_CategoryCap == Len(scan.repositories) <= maxReposPerCategory

\* C10's case: the scan returned because of the category limit, with search
\* results left over, after searching every term.
C10_Witness ==
    /\ scan.pc = "Done"
    /\ scan.exit = "cap"
    /\ Len(scan.repositories) = maxReposPerCategory
    /\ Len(scanLog.searched) = NumTerms
    /\ Len(scanLog.enriched) > maxReposPerCategory

\* C11, as stated: for each search term, at most maxReposPerSearch
\* candidates are enriched, whatever list the search returned.
C11_PerSearchCap == scanLog.count <= maxReposPerSearch

\* C11, amended: each search asks for perPage = maxReposPerSearch, and the
\* candidates enriched for a term are at most those its search returned; so
\* at most maxReposPerSearch when the search keeps to the perPage it was
\* given.
C11_PerSearchAsked ==
    scanLog.searched # <<>>
        => /\ scanLog.perPage = maxReposPerSearch
           /\ scanLog.count <= scanLog.returned
           /\ scanLog.returned <= scanLog.perPage
                => scanLog.count <= maxReposPerSearch

\* a search that returned more than the perPage it was asked for, and all of
\* it was enriched
C11_Witness ==
    /\ scan.pc = "Done"
    /\ scanLog.perPage = maxReposPerSearch
    /\ scanLog.returned > scanLog.perPage
    /\ scanLog.count = scanLog.returned

\* C12: when the timeout has passed at the top of a search term's iteration,
\* the scan ends there: the term is not searched, nothing is enriched, and
\* what was accumulated is what scanCategory returns.
C12_TimeoutAtBoundary ==
    [][(scan.pc = "Searching" /\ scan.expired)
            => /\ scan'.pc = "Done"
               /\ scan'.repositories = scan.repositories
               /\ scanLog' = scanLog]_vars

\* a scan that timed out with records and with terms left to search
C12_Witness ==
    /\ scan.pc = "Done"
    /\ scan.exit = "timeout"
    /\ scan.repositories # <<>>
    /\ Len(scanLog.searched) < NumTerms

\* C13, as stated: once the timeout has passed, no further candidate of the
\* current search term is handed to enrichRepository.
C13_NoEnrichmentWhenOverdue == ~scanLog.overdue

\* C13, amended: the timeout is looked at only at the top of a term's
\* iteration.  Inside the loop over the results every candidate that is not
\* a duplicate is enriched until the category limit is reached, whether the
\* timeout has passed or not; and once it has passed no further term is
\* searched.
C13_TimeoutOnlyBetweenTerms ==
    [][/\ (/\ scan.pc = "Enriching"
           /\ scan.repos # <<>>
           /\ Len(scan.repositories) < maxReposPerCategory
           /\ Head(scan.repos) \notin Range(scan.repositories))
          => /\ scanLog'.enriched = Append(scanLog.enriched, Head(scan.repos))
             /\ scan'.pc = "Enriching"
             /\ scan'.repos = Tail(scan.repos)
       /\ scan.expired => scanLog'.searched = scanLog.searched]_vars

\* a scan that timed out, having enriched a candidate after the timeout had
\* passed, and returns records
C13_Witness ==
    /\ scan.pc = "Done"
    /\ scan.exit = "timeout"
    /\ scanLog.overdue
    /\ scan.repositories # <<>>

\* C14: with two search terms whose searches return three candidates each,
\* all different and all enriched, and a category limit of five,
\* scanCategory returns exactly five records: the three of the first term
\* followed by the first two of the second.
C14_FiveOfSix ==
    scan.pc = "Done"
        => /\ Len(scan.repositories) = 5
           /\ scan.repositories = scenario[1] \o SubSeq(scenario[2], 1, 2)

\* the scripted scan has returned, having searched both terms and enriched
\* two of the three candidates of the second
C14_Witness ==
    /\ scan.pc = "Done"
    /\ scan.maxReposPerCategory = 5
    /\ scanLog.searched = <<1, 2>>
    /\ scanLog.returned = 3
    /\ scanLog.count = 2
    /\ Len(scanLog.enriched) = 5
    /\ scan.exit = "cap"

\* C15: a search that throws does not end the scan: the records accumulated
\* so far are kept and the loop goes on with the next term (or, after the
\* last term, scanCategory returns the list), whichever searches fail.
C15_SearchErrorContained ==
    [][(scanLog'.searched # scanLog.searched /\ scanLog'.threw)
            => /\ scan'.repositories = scan.repositories
               /\ scan'.exit # "threw"
               /\ IF scan.term < NumTerms
                  THEN scan'.pc = "Searching" /\ scan'.term = scan.term + 1
                  ELSE scan'.pc = "Done" /\ scan'.exit = "exhausted"]_vars

\* a scan whose first search gave records and whose later search threw
\* returns the records
C15_Witness ==
    /\ scan.pc = "Done"
    /\ scanLog.searched = <<1, 2>>
    /\ scanLog.threw
    /\ scan.repositories # <<>>

\* C16: a step that rescans a category and whose scan returns nothing (every
\* search failed) still completes: the repository map then holds no record
\* of the category, the category is in completedCategories and its time
\* stamp is the step's time.
C16_EmptyRescan ==
    (last.kind # "none" /\ last.stale # {} /\ last.length = 0)
    => /\ last.outcome = "ok"
       /\ recordsOf(repositoriesFile, last.category) = {}
       /\ last.category \in Range(statusFile.completedCategories)
       /\ timestampOf(statusFile, last.category) = last.now

\* a category that had records was rescanned and nothing was found
C16_Witness ==
    /\ last.kind # "none"
    /\ last.stale # {}
    /\ last.length = 0
    /\ last.outcome = "ok"

\* C17: after any automatic and manual steps from the empty status,
\* completedCategories holds configured category ids only, none of them
\* twice (so at most N entries); and right after a step that scans C, C is
\* in it exactly once, and C's time stamp and lastScanTime are the step's
\* time.
C17_CompletedWellFormed ==
    /\ \A cat \in Range(statusFile.completedCategories) :
            /\ cat \in CategoryIds
            /\ occurrences(statusFile.completedCategories, cat) = 1
    /\ Len(statusFile.completedCategories) <= Len(allCategories)
    /\ last.kind # "none"
        => /\ occurrences(statusFile.completedCategories, last.category) = 1
           /\ timestampOf(statusFile, last.category) = last.now
           /\ statusFile.lastScanTime = last.now

\* after automatic and manual steps, a step has scanned a category that was
\* already in completedCategories
C17_Witness ==
    /\ hist.autoRuns > 0
    /\ hist.manualRuns > 0
    /\ last.kind = "auto"
    /\ last.category \in Range(last.entry.completedCategories)

\* C18: a step stamps lastFullScan (with a clock reading of its own, not
\* before the category's time stamp) if and only if, once its category is
\* marked completed, completedCategories holds every configured category;
\* any other step leaves lastFullScan as it found it.
C18_FullScanStamp ==
    last.kind # "none"
    => IF Range(statusFile.completedCategories) = CategoryIds
       THEN /\ statusFile.lastFullScan = clock
            /\ statusFile.lastFullScan >= last.now
       ELSE statusFile.lastFullScan = last.entry.lastFullScan

\* the step whose category was the last one missing
C18_Witness ==
    /\ last.kind # "none"
    /\ Range(statusFile.completedCategories) = CategoryIds
    /\ statusFile.lastFullScan = clock
    /\ statusFile.lastFullScan > last.entry.lastFullScan
    /\ Range(last.entry.completedCategories) # CategoryIds

\* C19: a manual scan of category K scans K, whatever the rotation would
\* select; it does not increment currentCycle; it leaves the membership in
\* completedCategories and the time stamp of every other category as they
\* were; and the status it persists has K in completedCategories.
C19_ManualScanFrame ==
    last.kind = "manual"
    => /\ last.category = last.asked
       /\ statusFile.currentCycle = last.entry.currentCycle
       /\ \A cat \in CategoryIds \ {last.asked} :
            /\ cat \in Range(statusFile.completedCategories)
                    <=> cat \in Range(last.entry.completedCategories)
            /\ timestampOf(statusFile, cat) = timestampOf(last.entry, cat)
       /\ last.asked \in Range(statusFile.completedCategories)

\* a manual scan of a completed category, where the rotation would have
\* selected another category and begun a new cycle
C19_Witness ==
    /\ last.kind = "manual"
    /\ last.outcome = "ok"
    /\ last.asked \in Range(last.entry.completedCategories)
    /\ getNextCategory(last.entry).category # last.asked
    /\ getNextCategory(last.entry).isNewCycle

\* C20: in every scan status persisted by automatic and manual steps from
\* the empty status, each category in completedCategories has a time stamp
\* in categoryTimestamps.
C20_CompletedAreStamped ==
    \A cat \in Range(statusFile.completedCategories) :
        timestampOf(statusFile, cat) # 0

\* a status persisted after automatic and manual steps, with completed
\* categories and a category not yet scanned
C20_Witness ==
    /\ hist.autoRuns > 0
    /\ hist.manualRuns > 0
    /\ Len(statusFile.completedCategories) > 1
    /\ \E cat \in CategoryIds : timestampOf(statusFile, cat) = 0

\* C21: an invocation of run calls scanCategory once and saveData once,
\* after the scan: until the scan has returned both files are as the
\* invocation found them, and when run ends it has scanned one category and
\* written both files in one saveData.
C21_OneScanThenOneSave ==
    /\ running.pc \in {"loaded", "scanned"}
        => /\ repositoriesFile = running.existingRepos
           /\ statusFile = running.scanStatus
           /\ running.saves = 0
    /\ running.pc = "saved"
        => /\ running.scans = 1
           /\ running.saves = 1
           /\ last.written = 2
           /\ last.ids = running.categoryRepos.ids

\* a second invocation has scanned its category, the files still being
\* those the first one wrote, and then saved
C21_Witness ==
    /\ running.pc = "saved"
    /\ running.scanStatus # defaultScanStatus
    /\ running.categoryRepos.ids # {}
    /\ repositoriesFile # running.existingRepos
    /\ statusFile # running.scanStatus

\* C22: within one category scan no search term is searched twice and no
\* candidate (by full_name) is handed to enrichRepository twice, a candidate
\* whose enrichment failed and that a later search returns again included.
C22_NoRepeat ==
    /\ \A term \in Range(scanLog.searched) :
            occurrences(scanLog.searched, term) = 1
    /\ \A repo \in Range(scanLog.enriched) :
            occurrences(scanLog.enriched, repo) = 1

\* C23: when an auxiliary fetch of enrichRepository fails with an error
\* (README, releases, commits, contributors, the license, contributing and
\* CI file checks), enrichRepository still returns a record, the failed
\* piece absent; it returns null only when html_url does not parse.
C23_AuxiliaryFailureTolerated ==
    (scenario.pc = "returned" /\ scenario.fetched.urlParses)
    => /\ ~scenario.enrichedRepo.null
       /\ scenario.fetched.readme = "error"
            => scenario.enrichedRepo.readme = "null"
       /\ scenario.fetched.releases = "error"
            => scenario.enrichedRepo.releases = "empty"
       /\ scenario.fetched.license = "error"
            => ~scenario.enrichedRepo.hasLicense

scored == scenario.pc = "returned" /\ ~scenario.qualityScore.raised

breakdownSum(scores) ==
    scores.popularity + scores.activity + scores.documentation
    + scores.community + scores.maintenance + scores.codeQuality

\* C24: in every QualityScore, total is the sum of the six breakdown values.
C24_TotalIsSum ==
    scored
    => points(scenario.qualityScore.total)
            = breakdownSum(scenario.qualityScore.breakdown)

\* the grade scale, on a total in whole points
gradeOfTotal(total) ==
    IF total >= 90 THEN "A+"
    ELSE IF total >= 80 THEN "A"
    ELSE IF total >= 70 THEN "B"
    ELSE IF total >= 60 THEN "C"
    ELSE IF total >= 50 THEN "D"
    ELSE "F"

\* C25: the grade of every QualityScore is the grade of its reported total:
\* A+ from 90, A from 80 to 89, B from 70 to 79, C from 60 to 69, D from 50
\* to 59, F below 50 (so equal totals have equal grades).
C25_GradeOfTotal ==
    scored
    => scenario.qualityScore.grade = gradeOfTotal(scenario.qualityScore.total)

\* C26: for inputs that are not negative every sub-score is within its
\* bound (popularity 25, activity 20, documentation 20, community 15,
\* maintenance 10, codeQuality 10), and the total within 0..100.
C26_SubScoreBounds ==
    scored
    => LET scores == scenario.qualityScore.breakdown
       IN /\ scores.popularity \in 0..points(25)
          /\ scores.activity \in 0..points(20)
          /\ scores.documentation \in 0..points(20)
          /\ scores.community \in 0..points(15)
          /\ scores.maintenance \in 0..points(10)
          /\ scores.codeQuality \in 0..points(10)
          /\ scenario.qualityScore.total \in 0..100

\* a repository with more stars and forks than the caps count, scored at the
\* bound of popularity
C26_Witness ==
    /\ scored
    /\ scenario.input.repo.stargazers_count > 2000
    /\ scenario.input.repo.forks_count > 200
    /\ scenario.qualityScore.breakdown.popularity = points(25)

\* C27: 1000 stars, 200 forks, pushed 2 days ago, one release 10 days ago, a
\* README of 6000 characters with headers, code block and badge, wiki,
\* license, contributing guide, 5 open issues, issues enabled, 3 topics, CI,
\* not archived: popularity 15, activity 20, documentation 20, community 15,
\* maintenance 1, codeQuality 10, total 81, grade A.
C27_WorkedExample ==
    (/\ scenario.pc = "returned"
     /\ scenario.input = [repo |-> richRepo, additionalData |-> {richData}]
     /\ scenario.now = 400)
    => scenario.qualityScore =
            [raised |-> FALSE, total |-> 81, grade |-> "A", maxPoints |-> 100,
             breakdown |->
                [popularity |-> points(15), activity |-> points(20),
                 documentation |-> points(20), community |-> points(15),
                 maintenance |-> points(1), codeQuality |-> points(10)]]

C27_Witness ==
    /\ scenario.pc = "returned"
    /\ scenario.input = [repo |-> richRepo, additionalData |-> {richData}]
    /\ scenario.now = 400
    /\ scenario.qualityScore.total = 81

C29_ScoreIsFunctionOfInputs ==
    scenario.pc = "again" => scenario.second = scenario.qualityScore

\* C30: in the legacy full scanner the repositories accumulated over all
\* the categories are never more than maxTotalRepos, while the scan runs and
\* in the list it returns, whatever the three limits are.
C30_TotalNeverExceedsCap ==
    Len(scenario.thisRepositories) <= scenario.limits.maxTotalRepos

\* C31: a coordinator step that scans category C leaves every stored record
\* owned by another category D # C present and identical, whatever the scan
\* of C returned.
C31_OtherCategoriesUntouched ==
    [][\A r \in RepoIds :
          (/\ repositoriesFile[r] # NoRecord
           /\ repositoriesFile[r].category # last'.category)
          => repositoriesFile'[r] = repositoriesFile[r]]_vars

\* C32: when several categories share the earliest last-scan time stamp
\* (never scanned, 0 here, being the earliest of all, as when no category
\* has been scanned yet), getNextCategory selects the one of them that comes
\* first in configuration order.
C32_TieByConfigurationOrder ==
    LET earliest ==
            {cat \in CategoryIds :
                \A other \in CategoryIds :
                    timestampOf(statusFile, cat) <= timestampOf(statusFile, other)}
        first ==
            CHOOSE i \in 1..Len(allCategories) :
                /\ allCategories[i] \in earliest
                /\ \A j \in 1..(i - 1) : allCategories[j] \notin earliest
    IN Cardinality(earliest) >= 2
       => getNextCategory(statusFile).category = allCategories[first]

C34_NoDuplicateRecords ==
    \A i, j \in DOMAIN scan.repositories :
        scan.repositories[i] = scan.repositories[j] => i = j

\* C34's case: the scan has returned one record; the search for the second
\* term returned two candidates and none of them was handed to
\* enrichRepository although the category limit was not reached: both were
\* the repository already in the list.
C34_Witness ==
    /\ scan.pc = "Done"
    /\ scan.exit = "exhausted"
    /\ Len(scan.repositories) = 1
    /\ Len(scanLog.searched) = 2
    /\ ~scanLog.threw
    /\ scanLog.returned = 2
    /\ scanLog.count = 0

\* whether the elements of a are elements of b at increasing positions
RECURSIVE isSubsequence(_, _)
isSubsequence(a, b) ==
    IF a = <<>> THEN TRUE
    ELSE IF b = <<>> THEN FALSE
    ELSE IF Head(a) = Head(b) THEN isSubsequence(Tail(a), Tail(b))
    ELSE isSubsequence(a, Tail(b))

\* C35: the terms are searched in configured order, one after the other,
\* and no search is made while candidates of the term before are waiting;
\* the candidates handed to enrichRepository, and the records of the list,
\* come in the order (term, position in the term's results) in which the
\* searches returned them.
C35_InOrder ==
    LET received == scenario[1] \o scenario[2]
    IN /\ scanLog.searched = [i \in 1..Len(scanLog.searched) |-> i]
       /\ scan.pc = "Searching" => scan.repos = <<>>
       /\ isSubsequence(scanLog.enriched, received)
       /\ isSubsequence(scan.repositories, scanLog.enriched)
       /\ isSubsequence(scan.repositories, received)

\* C35's case: both searches returned two candidates, the scan has returned
\* a record of each term, and a candidate of the first term that came
\* before the one recorded was dropped.
C35_Witness ==
    /\ scan.pc = "Done"
    /\ Len(scenario[1]) = 2 /\ Len(scenario[2]) = 2
    /\ Len(scan.repositories) = 2
    /\ scan.repositories[1] = scenario[1][2]
    /\ scan.repositories[2] = scenario[2][2]
    /\ Range(scenario[1]) \cap Range(scenario[2]) = {}
    /\ Len(scanLog.enriched) = 4

\* C36: in every persisted state reached from the empty one, the category
\* of every record of the repository map is in completedCategories and has
\* a time stamp in categoryTimestamps.
C36_RecordsOfScannedCategories ==
    \A r \in RepoIds :
        repositoriesFile[r] # NoRecord
        => /\ repositoriesFile[r].category \in Range(statusFile.completedCategories)
           /\ timestampOf(statusFile, repositoriesFile[r].category) # 0

\* C37: whenever not all categories are completed, the category the data
\* inspector reports as the next to scan is the category the next automatic
\* invocation scans.
C37_InspectorAgreesWithScanner ==
    inspectsPending(statusFile)
    => inspectedNextCategory(statusFile) = getNextCategory(statusFile).category

\* C38: for a repository with six or more releases, changing the time
\* stamp of the sixth or of an older release does not change the
\* maintenance score.
C38_OlderReleasesIrrelevant ==
    scenario.pc = "returned" => scenario.score = scenario.changedScore

====
